---------------------------- MODULE Spec2Model ----------------------------
(***************************************************************************)
(* A model of irc3pinglist.py: the Pinglist plugin's seven command         *)
(* handlers (add, remove, create, delete, show, pinglists, doping) over    *)
(* the persistent store bot.db, and the two pure helpers                   *)
(* _validate_listname and _nick_match.                                     *)
(*                                                                         *)
(* Strings are sequences of one-character strings; a reply text is a       *)
(* sequence of string pieces whose concatenation is the text sent.         *)
(* A handler is one atomic step: it returns the store it leaves, the        *)
(* privmsg calls it made, and the exception it ended with (if any).        *)
(***************************************************************************)
EXTENDS Integers, Sequences, FiniteSets, TLC

VARIABLES db,       \* self.bot.db: list name -> set of nicks
          prevDb,   \* history: the store before the last command
          cmd,      \* history: the last command and its inputs
          out,      \* the privmsg calls of the last command, in order
          raised,   \* the exception the last command ended with, or NoError
          expect,   \* history: what the commands issued so far should have built
          gone,     \* history: names deleted from the store and not added back
          tasks,    \* the handler calls a concurrent host has in progress
          steps,    \* history: which call took each step, in order
          probe     \* inputs and result of a pure-function evaluation

vars == <<db, prevDb, cmd, out, raised, expect, gone, tasks, steps, probe>>

---------------------------------------------------------------------------
(* Characters and strings *)

\* Unicode code points of the characters used, the order Python compares by.
CodePoint ==
  (" " :> 32) @@ ("!" :> 33) @@ ("-" :> 45) @@ ("1" :> 49) @@ ("_" :> 95) @@ ("a" :> 97) @@ ("b" :> 98)
  @@ ("c" :> 99) @@ ("x" :> 120) @@ ("y" :> 121) @@ ("|" :> 124)

\* The characters re's \w accepts, among those of CodePoint.
WordChars == {"1", "_", "a", "b", "c", "x", "y"}

\* Python's str.__lt__: lexicographic by code point, a proper prefix first.
StrLess(s, t) ==
  \E i \in 1..(Len(t)) :
     /\ \A j \in 1..(i - 1) : j <= Len(s) /\ s[j] = t[j]
     /\ \/ i = Len(s) + 1
        \/ i <= Len(s) /\ CodePoint[s[i]] < CodePoint[t[i]]

\* sorted(S) for a set of strings: ascending.
RECURSIVE sorted(_)
sorted(S) ==
  IF S = {} THEN <<>>
  ELSE LET least == CHOOSE s \in S : \A t \in S \ {s} : StrLess(s, t)
       IN  <<least>> \o sorted(S \ {least})

\* ' '.join(words): the words with one space between neighbours.
RECURSIVE join(_)
join(words) ==
  IF words = <<>> THEN <<>>
  ELSE IF Len(words) = 1 THEN words[1]
  ELSE words[1] \o <<" ">> \o join(Tail(words))

\* str.split on blanks: the maximal runs of non-blank characters.
RECURSIVE split(_, _)
split(text, word) ==
  IF text = <<>> THEN (IF word = <<>> THEN <<>> ELSE <<word>>)
  ELSE IF Head(text) = " "
       THEN (IF word = <<>> THEN <<>> ELSE <<word>>) \o split(Tail(text), <<>>)
       ELSE split(Tail(text), Append(word, Head(text)))

WrapWidth == 256

\* textwrap.wrap(text, width=256, break_long_words=False,
\* break_on_hyphens=False): words packed greedily into lines of at most
\* width characters, a longer word alone on its line, no line for no words.
RECURSIVE fill(_, _)
fill(words, line) ==
  IF words = <<>> THEN (IF line = <<>> THEN <<>> ELSE <<line>>)
  ELSE IF line = <<>> THEN fill(Tail(words), Head(words))
  ELSE IF Len(line) + 1 + Len(Head(words)) <= WrapWidth
       THEN fill(Tail(words), line \o <<" ">> \o Head(words))
       ELSE <<line>> \o fill(words, <<>>)

wrap(text) == fill(split(text, <<>>), <<>>)

---------------------------------------------------------------------------
(* The module-level helpers *)

\* The length of the longest prefix of s made of word characters: what the
\* greedy \w+ consumes from the start of the string.
RECURSIVE WordPrefix(_)
WordPrefix(s) ==
  IF s # <<>> /\ Head(s) \in WordChars THEN 1 + WordPrefix(Tail(s)) ELSE 0

\* _validate_listname with the \Z left out of the pattern: word characters
\* at the start are enough.
ValidateWithoutEnd(name) == WordPrefix(name) >= 1

\* re.compile(r'\A\w+\Z').match(name): one or more word characters from the
\* start, and then the end of the string.
_validate_listname(name) ==
  LET k == WordPrefix(name) IN k >= 1 /\ k = Len(name)

\* The character class [-_|] of the pattern in _nick_match.
Decoration == {"-", "_", "|"}

\* _nick_match with the character class left out of the pattern: nick1
\* anywhere at the start of nick2 is enough.
NickMatchAnyPrefix(nick1, nick2) ==
  IF nick1 = nick2 THEN TRUE
  ELSE Len(nick2) >= Len(nick1) /\ SubSeq(nick2, 1, Len(nick1)) = nick1

\* _nick_match(nick1, nick2): equal, or re.match finds nick1 (escaped, so
\* literal) at the start of nick2 with one character of [-_|] right after.
_nick_match(nick1, nick2) ==
  IF nick1 = nick2 THEN TRUE
  ELSE IF /\ Len(nick2) >= Len(nick1) + 1
          /\ SubSeq(nick2, 1, Len(nick1)) = nick1
          /\ nick2[Len(nick1) + 1] \in Decoration
       THEN TRUE
       ELSE FALSE

---------------------------------------------------------------------------
(* What a handler reads besides its arguments *)

\* The names bound in the module's namespace when a handler runs: the
\* imports of lines 31-42 and the module's own definitions.  A global name
\* outside this set raises NameError where it is evaluated.
ModuleGlobals ==
  {"logging", "urllib", "re", "textwrap", "datetime", "irc3", "IrcServer",
   "asyncio", "command", "_validate_listname", "_nick_match", "Pinglist",
   "main"}

\* ircutils.isNick of the chat runtime, the handle-legality rule the
\* handlers name: a non-empty string of nick characters that does not
\* start with '-'.
isNick(nick) ==
  /\ nick # <<>>
  /\ nick[1] # "-"
  /\ \A i \in 1..Len(nick) : nick[i] \in WordChars \cup {"-", "|"}

NoError == "none"
None == "None"

\* UnboundLocal for handlers whose nicks starts as None: the local is bound
\* before line 101/133/162 reads it.
BoundToNone == [bound |-> TRUE, none |-> TRUE, val |-> {}]

\* A handler's local variable `nicks` on entry: the name is local (it is
\* assigned further down the body) and holds no value yet.
UnboundLocal == [bound |-> FALSE, none |-> FALSE, val |-> {}]

\* args[key] of the docopt dictionary: KeyError for a key it does not hold.
HasKey(args, key) == key \in DOMAIN args

\* What a handler leaves behind: the store, its privmsg calls in order, and
\* the exception it ended with.
Result(store, sent, exc) == [db |-> store, out |-> sent, raised |-> exc]

\* self.bot.privmsg(target, text)
privmsg(target, text) == [to |-> target, text |-> text]

\* self.bot.privmsg(target, '%s: %s' % (mask.nick, msg))
Reply(target, mask, msg) == privmsg(target, mask \o <<": ">> \o msg)

\* The lines of textwrap.wrap(message, ...) sent to target one by one.
SendLines(target, lines) == [i \in 1..Len(lines) |-> privmsg(target, lines[i])]

\* set(nicks) of a list of nicks.
ToSet(nicks) == {nicks[i] : i \in 1..Len(nicks)}

---------------------------------------------------------------------------
(* The command handlers *)

\* add over a store that makes a list on first use: the KeyError branch of
\* lines 96-99 never taken.
AddOnAutoStore(store, mask, target, args) ==
  LET listname == args["<listname>"]
  IN  IF listname \notin DOMAIN store
      THEN Result((listname :> ToSet(args["<nick>"])) @@ store,
                  <<Reply(target, mask, <<"Nick(s) successfully added.">>)>>, NoError)
      ELSE Result(store, <<>>, "UnboundLocalError")

\* Pinglist.add
add(store, mask, target, args) ==
  LET listname == args["<listname>"]
      nicks == UnboundLocal
  IN  IF listname \notin DOMAIN store
      THEN Result(store, <<Reply(target, mask, <<"No such ping list.">>)>>, NoError)
      ELSE IF ~nicks.bound
      THEN Result(store, <<>>, "UnboundLocalError")
      ELSE IF nicks.none
      THEN Result([store EXCEPT ![listname] = @ \cup {mask}],
                  <<Reply(target, mask, <<"Nick(s) successfully added.">>)>>, NoError)
      ELSE IF nicks.val # {} /\ "ircutils" \notin ModuleGlobals
      THEN Result(store, <<>>, "NameError")
      ELSE IF \E nick \in nicks.val : ~isNick(nick)
      THEN LET nick == CHOOSE n \in nicks.val : ~isNick(n)
           IN  Result(store, <<Reply(target, mask, <<"Invalid nick: ">> \o nick)>>, NoError)
      ELSE Result([store EXCEPT ![listname] = @ \cup nicks.val],
                  <<Reply(target, mask, <<"Nick(s) successfully added.">>)>>, NoError)

\* Pinglist.remove
remove(store, mask, target, args) ==
  LET listname == args["<listname>"]
      nicks == UnboundLocal
  IN  IF listname \notin DOMAIN store
      THEN Result(store, <<Reply(target, mask, <<"No such ping list.">>)>>, NoError)
      ELSE IF ~nicks.bound
      THEN Result(store, <<>>, "UnboundLocalError")
      ELSE IF nicks.none
      THEN Result([store EXCEPT ![listname] = @ \ {mask}],
                  <<Reply(target, mask, <<"Nick(s) successfully removed.">>)>>, NoError)
      ELSE IF nicks.val # {} /\ "ircutils" \notin ModuleGlobals
      THEN Result(store, <<>>, "NameError")
      ELSE IF \E nick \in nicks.val : ~isNick(nick)
      THEN LET nick == CHOOSE n \in nicks.val : ~isNick(n)
           IN  Result(store, <<Reply(target, mask, <<"Invalid nick: ">> \o nick)>>, NoError)
      ELSE Result([store EXCEPT ![listname] = @ \ nicks.val],
                  <<Reply(target, mask, <<"Nick(s) successfully removed.">>)>>, NoError)

\* create with nicks taken from args['<nick>'] and ircutils at hand: the
\* body runs on to the difference_update of line 171.
CreateWithNicks(store, mask, target, args) ==
  LET listname == args["<listname>"]
      nicks == ToSet(args["<nick>"])
  IN  IF ~_validate_listname(listname)
      THEN Result(store,
                  <<Reply(target, mask,
                          <<"List names can only contain alphanumeric characters.">>)>>,
                  NoError)
      ELSE IF \E nick \in nicks : ~isNick(nick)
      THEN Result(store, <<>>, "NameError")
      ELSE IF listname \notin DOMAIN store
      THEN Result(store, <<>>, "KeyError")
      ELSE Result([store EXCEPT ![listname] = @ \ nicks],
                  <<Reply(target, mask, <<"Pinglist ">> \o listname \o <<" added.">>)>>,
                  NoError)

\* Pinglist.create
create(store, mask, target, args) ==
  LET listname == args["<listname>"]
      nicks == UnboundLocal
  IN  IF ~_validate_listname(listname)
      THEN Result(store,
                  <<Reply(target, mask,
                          <<"List names can only contain alphanumeric characters.">>)>>,
                  NoError)
      ELSE IF ~nicks.bound
      THEN Result(store, <<>>, "UnboundLocalError")
      ELSE IF nicks.val # {} /\ "ircutils" \notin ModuleGlobals
      THEN Result(store, <<>>, "NameError")
      ELSE IF (\E nick \in nicks.val : ~isNick(nick)) /\ "irc" \notin ModuleGlobals
      THEN Result(store, <<>>, "NameError")
      ELSE IF \E nick \in nicks.val : ~isNick(nick)
      THEN LET nick == CHOOSE n \in nicks.val : ~isNick(n)
           IN  Result(store, <<privmsg(target, <<"Invalid nick: ">> \o nick)>>, NoError)
      ELSE IF listname \notin DOMAIN store
      THEN Result(store, <<>>, "KeyError")
      ELSE IF nicks.none
      THEN Result(store, <<>>, "TypeError")
      ELSE Result([store EXCEPT ![listname] = @ \ nicks.val],
                  <<Reply(target, mask, <<"Pinglist ">> \o listname \o <<" added.">>)>>,
                  NoError)

\* Pinglist.delete
delete(store, mask, target, args) ==
  LET listname == args["<listname>"]
  IN  IF listname \notin DOMAIN store
      THEN Result(store, <<Reply(target, mask, <<"No such ping list.">>)>>, NoError)
      ELSE Result([n \in DOMAIN store \ {listname} |-> store[n]],
                  <<Reply(target, mask, <<"Pinglist ">> \o listname \o <<" deleted.">>)>>,
                  NoError)

\* show over a store that makes a list on first use: the lookup of line 203
\* creates the list instead of raising KeyError.
ShowOnAutoStore(store, mask, target, args) ==
  LET listname == args["<listname>"]
      auto == IF listname \in DOMAIN store THEN store ELSE (listname :> {}) @@ store
      message == wrap(join(sorted(auto[listname])))
  IN  Result(auto,
             <<Reply(target, mask, <<"Members of ">> \o listname \o <<": ">>)>>
               \o SendLines(target, message),
             NoError)

\* Pinglist.show
show(store, mask, target, args) ==
  LET listname == args["<listname>"]
  IN  IF listname \notin DOMAIN store
      THEN Result(store, <<Reply(target, mask, <<"No such ping list.">>)>>, NoError)
      ELSE LET message == wrap(join(sorted(store[listname])))
           IN  Result(store,
                      <<Reply(target, mask, <<"Members of ">> \o listname \o <<": ">>)>>
                        \o SendLines(target, message),
                      NoError)

\* pinglists without the sorted() of line 229: the names come in the order
\* the store happens to keep them, here the descending one.
PinglistsUnsorted(store, mask, target, args) ==
  LET names == sorted(DOMAIN store)
      keys == [i \in 1..Len(names) |-> names[Len(names) + 1 - i]]
      ping_message == wrap(join(keys))
  IN  Result(store,
             <<Reply(target, mask, <<"Current ping lists: ">>)>>
               \o SendLines(target, ping_message),
             NoError)

\* Pinglist.pinglists
pinglists(store, mask, target, args) ==
  LET ping_message == wrap(join(sorted(DOMAIN store)))
  IN  Result(store,
             <<Reply(target, mask, <<"Current ping lists: ">>)>>
               \o SendLines(target, ping_message),
             NoError)

\* Lines 265-271 of doping: the stored nicks, and every user of the channel
\* that is another spelling of one of them.
ping_set(pinglist, users) ==
  pinglist \cup {nick2 \in users :
                   \E nick \in pinglist : nick # nick2 /\ _nick_match(nick, nick2)}

\* doping that reads args['<message>'], has irc at hand and resolves into
\* the stored set itself (ping_set = pinglist at line 264, no copy).
DopingAliasesList(store, mask, target, args, channels) ==
  LET listname == args["<listname>"]
      channel == IF HasKey(args, "<channel>") THEN args["<channel>"] ELSE None
      dest == IF channel # None THEN channel ELSE target
  IN  IF listname \notin DOMAIN store
      THEN Result(store, <<Reply(dest, mask, <<"No such ping list.">>)>>, NoError)
      ELSE IF store[listname] = {}
      THEN Result(store, <<Reply(dest, mask, <<"Ping list is empty.">>)>>, NoError)
      ELSE IF dest \notin DOMAIN channels
      THEN Result(store, <<>>, "KeyError")
      ELSE LET resolved == ping_set(store[listname], channels[dest])
           IN  Result([store EXCEPT ![listname] = resolved],
                      SendLines(dest, wrap(join(sorted(resolved)))), NoError)

\* Pinglist.doping; channels is irc.state.channels, channel -> its users.
doping(store, mask, target, args, channels) ==
  LET listname == args["<listname>"]
      channel == IF HasKey(args, "<channel>") THEN args["<channel>"] ELSE None
      dest == IF channel # None THEN channel ELSE target
  IN  IF ~HasKey(args, "<message")
      THEN Result(store, <<>>, "KeyError")
      ELSE IF listname \notin DOMAIN store
      THEN Result(store, <<Reply(dest, mask, <<"No such ping list.">>)>>, NoError)
      ELSE IF store[listname] = {}
      THEN Result(store, <<Reply(dest, mask, <<"Ping list is empty.">>)>>, NoError)
      ELSE IF "irc" \notin ModuleGlobals
      THEN Result(store, <<>>, "NameError")
      ELSE IF dest \notin DOMAIN channels
      THEN Result(store, <<>>, "KeyError")
      ELSE LET pinglist == sorted(ping_set(store[listname], channels[dest]))
           IN  Result(store, SendLines(dest, wrap(join(pinglist))), NoError)

---------------------------------------------------------------------------
(* The bounded universe of inputs *)

MaxNicks == 2      \* the most nicks one command line carries
MaxLen == 3        \* the longest string given to a pure helper

alice == <<"a">>
bob == <<"b">>
carol == <<"c">>
alice_ == <<"a", "_">>
notANick == <<"-", "a">>

\* List names a command may carry: two legal ones and one that is not.
ListNames == {<<"x">>, <<"y">>, <<"x", "!">>}

\* Nicks a command line may carry, the nicks of the callers, the nicks a
\* channel may hold, and the nicks a persisted list may hold.
ArgNicks == {alice, bob, notANick}
Callers == {alice, bob}
StoredNicks == {alice, bob}
Targets == {"#chan", "#dev"}

\* The nick lists a command line may carry: at most MaxNicks nicks, each
\* once, in ascending order (the handlers read the list only as a set).
NickLists == {sorted(S) : S \in {T \in SUBSET ArgNicks : Cardinality(T) <= MaxNicks}}

\* irc.state.channels at the time of a command: each channel's users.
Snapshots ==
  {("#chan" :> here) @@ ("#dev" :> there) :
     here \in SUBSET {alice_, carol}, there \in {{alice_}}}

NoUsers == ("#chan" :> {}) @@ ("#dev" :> {})

\* The stores the persistence collaborator may hand over at start-up: any
\* of the legal names, each with any set of stored nicks.
Stores ==
  UNION {[names -> SUBSET StoredNicks] : names \in SUBSET {<<"x">>, <<"y">>}}

EmptyStore == [n \in {} |-> {}]

\* The docopt dictionaries of the commands.
ListArgs(listname) == "<listname>" :> listname
NickArgs(listname, nicks) == ("<listname>" :> listname) @@ ("<nick>" :> nicks)
PingArgs(listname, channel) ==
  ("<listname>" :> listname) @@ ("<channel>" :> channel) @@ ("<message>" :> <<"hi">>)
NoArgs == [k \in {} |-> <<>>]

Command(op, mask, target, args, channels) ==
  [op |-> op, mask |-> mask, target |-> target, args |-> args, channels |-> channels]

---------------------------------------------------------------------------
(* History: the store the commands issued so far describe *)

\* The nicks a create, add or remove line names: those given, and for add
\* and remove the caller's own when none is given.
Named(c) ==
  IF c.args["<nick>"] = <<>> /\ c.op # "create" THEN {c.mask}
  ELSE ToSet(c.args["<nick>"])

\* expect after command c, started on store from the reference store ref:
\* create of a legal, absent name with legal nicks starts a list with them,
\* add unions and remove subtracts legal nicks on a list so started, delete
\* forgets the list.
Expected(ref, store, c) ==
  IF c.op \in {"create", "add", "remove"}
  THEN LET n == c.args["<listname>"]
           legal == \A h \in Named(c) : isNick(h)
       IN  IF c.op = "create"
           THEN IF _validate_listname(n) /\ n \notin DOMAIN ref
                   /\ n \notin DOMAIN store /\ legal
                THEN (n :> Named(c)) @@ ref
                ELSE ref
           ELSE IF n \in DOMAIN ref /\ legal
                THEN [ref EXCEPT ![n] = IF c.op = "add" THEN @ \cup Named(c)
                                        ELSE @ \ Named(c)]
                ELSE ref
  ELSE IF c.op = "delete"
  THEN [n \in DOMAIN ref \ {c.args["<listname>"]} |-> ref[n]]
  ELSE ref

---------------------------------------------------------------------------
(* The state machine: one command at a time *)

NoCommand == Command("none", <<>>, "#chan", NoArgs, NoUsers)
NoProbe == [fn |-> "none", done |-> FALSE, arg1 |-> <<>>, arg2 |-> <<>>, result |-> FALSE]

\* The plugin once its bot is bound (line 79): no command yet, and in
\* bot.db whatever the storage plugin has persisted.
Init ==
  /\ db \in Stores
  /\ prevDb = db
  /\ cmd = NoCommand
  /\ out = <<>>
  /\ raised = NoError
  /\ expect = EmptyStore
  /\ gone = {}
  /\ tasks = <<>>
  /\ steps = <<>>
  /\ probe = NoProbe

\* Handler result r of command c takes effect.
Run(c, r) ==
  /\ cmd' = c
  /\ prevDb' = db
  /\ db' = r.db
  /\ out' = r.out
  /\ raised' = r.raised
  /\ expect' = Expected(expect, db, c)
  /\ gone' = (gone \cup (DOMAIN db \ DOMAIN r.db)) \ DOMAIN r.db

\* The dispatcher runs handler result r for command c to its end.
Dispatch(c, r) ==
  /\ Run(c, r)
  /\ UNCHANGED <<tasks, steps, probe>>

Add ==
  \E n \in ListNames, who \in Callers, nicks \in NickLists :
     LET args == NickArgs(n, nicks)
     IN  Dispatch(Command("add", who, "#chan", args, NoUsers),
                  add(db, who, "#chan", args))

Remove ==
  \E n \in ListNames, who \in Callers, nicks \in NickLists :
     LET args == NickArgs(n, nicks)
     IN  Dispatch(Command("remove", who, "#chan", args, NoUsers),
                  remove(db, who, "#chan", args))

Create ==
  \E n \in ListNames, who \in Callers, nicks \in NickLists :
     LET args == NickArgs(n, nicks)
     IN  Dispatch(Command("create", who, "#chan", args, NoUsers),
                  create(db, who, "#chan", args))

Delete ==
  \E n \in ListNames, who \in Callers :
     Dispatch(Command("delete", who, "#chan", ListArgs(n), NoUsers),
              delete(db, who, "#chan", ListArgs(n)))

Show ==
  \E n \in ListNames, who \in Callers :
     Dispatch(Command("show", who, "#chan", ListArgs(n), NoUsers),
              show(db, who, "#chan", ListArgs(n)))

PingLists ==
  \E who \in Callers :
     Dispatch(Command("pinglists", who, "#chan", NoArgs, NoUsers),
              pinglists(db, who, "#chan", NoArgs))

DoPing ==
  \E n \in ListNames, who \in Callers, channel \in {None, "#dev"},
     channels \in Snapshots :
     LET args == PingArgs(n, channel)
     IN  Dispatch(Command("doping", who, "#chan", args, channels),
                  doping(db, who, "#chan", args, channels))

Next == Add \/ Remove \/ Create \/ Delete \/ Show \/ PingLists \/ DoPing

Spec == Init /\ [][Next]_vars

---------------------------------------------------------------------------
(* The pure helpers on their own: inputs drawn at the start, then applied *)

PureChars == {"a", "x", "-", "_", "|"}
NameChars == {"a", "b", "1", "_", " ", "!"}

\* All strings over chars of length at most n.
RECURSIVE StringsUpTo(_, _)
StringsUpTo(chars, n) ==
  IF n = 0 THEN {<<>>}
  ELSE LET shorter == StringsUpTo(chars, n - 1)
       IN  shorter \cup {Append(q, ch) : q \in {r \in shorter : Len(r) = n - 1},
                                          ch \in chars}

Strings == StringsUpTo(PureChars, MaxLen)
Names == StringsUpTo(NameChars, MaxLen)

\* Either a pair of nicks to match over no store, or a list name to
\* validate by a create over any persisted store.
InitPure ==
  /\ \/ /\ db = EmptyStore
        /\ probe \in [fn : {"_nick_match"}, done : {FALSE}, arg1 : Strings,
                      arg2 : Strings, result : {FALSE}]
     \/ /\ db \in Stores
        /\ probe \in [fn : {"_validate_listname"}, done : {FALSE}, arg1 : Names,
                      arg2 : {<<>>}, result : {FALSE}]
  /\ prevDb = db
  /\ cmd = NoCommand
  /\ out = <<>>
  /\ raised = NoError
  /\ expect = EmptyStore
  /\ gone = {}
  /\ tasks = <<>>
  /\ steps = <<>>

NickMatch ==
  /\ probe.fn = "_nick_match" /\ ~probe.done
  /\ probe' = [probe EXCEPT !.done = TRUE, !.result = _nick_match(probe.arg1, probe.arg2)]
  /\ UNCHANGED <<db, prevDb, cmd, out, raised, expect, gone, tasks, steps>>

\* The name is validated, alone and by a create command that carries it.
ValidateName ==
  /\ probe.fn = "_validate_listname" /\ ~probe.done
  /\ probe' = [probe EXCEPT !.done = TRUE, !.result = _validate_listname(probe.arg1)]
  /\ LET args == NickArgs(probe.arg1, <<>>)
     IN  Run(Command("create", alice, "#chan", args, NoUsers),
             create(db, alice, "#chan", args))
  /\ UNCHANGED <<tasks, steps>>

NextPure == NickMatch \/ ValidateName

SpecPure == InitPure /\ [][NextPure]_vars

---------------------------------------------------------------------------
(* A host that runs two add/remove calls at once, statement by statement *)

\* A call of add or remove that has not started.
Call(op, mask, args) ==
  [op |-> op, mask |-> mask, args |-> args, pc |-> "start", out |-> <<>>,
   raised |-> NoError]

\* The call ends with these privmsg calls and this exception.
Finish(t, sent, exc) == [t EXCEPT !.pc = "done", !.out = sent, !.raised = exc]

\* handler_step over a store that makes a list on first use: the lookup of
\* lines 95/127 creates the list instead of raising KeyError.
StepOnAutoStore(store, t) ==
  LET listname == t.args["<listname>"]
  IN  IF t.pc = "start"
      THEN [db |-> IF listname \in DOMAIN store THEN store
                   ELSE (listname :> {}) @@ store,
            task |-> [t EXCEPT !.pc = "looked"]]
      ELSE [db |-> store, task |-> Finish(t, <<>>, "UnboundLocalError")]

\* One step of a call of add (lines 93-114) or remove (lines 125-146): the
\* lookup of the list with its KeyError branch, then the reading and
\* checking of nicks, then the update of the stored set with the reply.
handler_step(store, t) ==
  LET listname == t.args["<listname>"]
      nicks == UnboundLocal
      given == IF nicks.none THEN {t.mask} ELSE nicks.val
      done == IF t.op = "add" THEN <<"Nick(s) successfully added.">>
              ELSE <<"Nick(s) successfully removed.">>
  IN  IF t.pc = "start"
      THEN IF listname \notin DOMAIN store
           THEN [db |-> store,
                 task |-> Finish(t, <<Reply("#chan", t.mask, <<"No such ping list.">>)>>,
                                 NoError)]
           ELSE [db |-> store, task |-> [t EXCEPT !.pc = "looked"]]
      ELSE IF t.pc = "looked"
      THEN IF ~nicks.bound
           THEN [db |-> store, task |-> Finish(t, <<>>, "UnboundLocalError")]
           ELSE IF ~nicks.none /\ nicks.val # {} /\ "ircutils" \notin ModuleGlobals
           THEN [db |-> store, task |-> Finish(t, <<>>, "NameError")]
           ELSE IF ~nicks.none /\ \E nick \in nicks.val : ~isNick(nick)
           THEN LET nick == CHOOSE n \in nicks.val : ~isNick(n)
                IN  [db |-> store,
                     task |-> Finish(t, <<Reply("#chan", t.mask,
                                                <<"Invalid nick: ">> \o nick)>>, NoError)]
           ELSE [db |-> store, task |-> [t EXCEPT !.pc = "checked"]]
      ELSE IF listname \notin DOMAIN store
      THEN [db |-> store, task |-> Finish(t, <<>>, "KeyError")]
      ELSE [db |-> [store EXCEPT ![listname] = IF t.op = "add" THEN @ \cup given
                                               ELSE @ \ given],
            task |-> Finish(t, <<Reply("#chan", t.mask, done)>>, NoError)]

\* Two calls on one list, of alice and of bob, over any persisted store.
InitHost ==
  /\ db \in Stores
  /\ prevDb = db
  /\ cmd = NoCommand
  /\ out = <<>>
  /\ raised = NoError
  /\ expect = EmptyStore
  /\ gone = {}
  /\ \E n \in ListNames, op1 \in {"add", "remove"}, op2 \in {"add", "remove"},
        nicks1 \in NickLists, nicks2 \in NickLists :
        tasks = <<Call(op1, alice, NickArgs(n, nicks1)),
                  Call(op2, bob, NickArgs(n, nicks2))>>
  /\ steps = <<>>
  /\ probe = NoProbe

\* The host lets call i take its next step.
HostStep ==
  \E i \in DOMAIN tasks :
     /\ tasks[i].pc # "done"
     /\ LET r == handler_step(db, tasks[i])
        IN  /\ db' = r.db
            /\ tasks' = [tasks EXCEPT ![i] = r.task]
     /\ steps' = Append(steps, i)
     /\ UNCHANGED <<prevDb, cmd, out, raised, expect, gone, probe>>

NextHost == HostStep

SpecHost == InitHost /\ [][NextHost]_vars

---------------------------------------------------------------------------
(* Shorthands for the properties *)

HasList == cmd.op \in {"add", "remove", "create", "delete", "show", "doping"}
TheList == cmd.args["<listname>"]
Given == ToSet(cmd.args["<nick>"])
Said(msg) == <<Reply(cmd.target, cmd.mask, msg)>>
NoSuchList == <<"No such ping list.">>

\* Where a doping is to deliver: the channel given, else where it was called.
Destination ==
  IF cmd.args["<channel>"] # None THEN cmd.args["<channel>"] ELSE cmd.target

\* The store prevDb with list n mapped to members.
WithList(n, members) == (n :> members) @@ prevDb

\* The store prevDb without list n.
WithoutList(n) == [m \in DOMAIN prevDb \ {n} |-> prevDb[m]]

---------------------------------------------------------------------------
(* C1 *)

\* C1: a create command with a legal list name that is not in the store ends
\* with that name in the store mapped to exactly the nicks given, every
\* other list as it was, and the one reply 'Pinglist <name> added.'.
C1_CreateAddsList ==
  (cmd.op = "create" /\ _validate_listname(TheList) /\ TheList \notin DOMAIN prevDb)
    => /\ raised = NoError
       /\ db = WithList(TheList, Given)
       /\ out = Said(<<"Pinglist ">> \o TheList \o <<" added.">>)

---------------------------------------------------------------------------
(* C2 *)

\* C2: a create command on a legal name that an earlier create command was
\* already given, with no delete of it since, ends with one reply that is
\* not the success message 'Pinglist <name> added.' (the already-exists
\* failure), and not with an exception.
C2_SecondCreateRejected ==
  [][(cmd'.op = "create" /\ cmd'.args["<listname>"] \in DOMAIN expect)
       => /\ raised' = NoError
          /\ Len(out') = 1
          /\ out' # <<Reply(cmd'.target, cmd'.mask,
                            <<"Pinglist ">> \o cmd'.args["<listname>"] \o <<" added.">>)>>
          /\ db' = db]_vars

---------------------------------------------------------------------------
(* C3 *)

\* C3: delete of a name in the store removes that list and nothing else and
\* replies 'Pinglist <name> deleted.'; delete of a name not in the store
\* replies 'No such ping list.' and leaves the store as it was; and show,
\* add, remove and doping on a name that was deleted and not added back
\* reply 'No such ping list.'.
C3_DeleteThenNoSuchList ==
  /\ (cmd.op = "delete" /\ TheList \in DOMAIN prevDb)
       => /\ db = WithoutList(TheList)
          /\ out = Said(<<"Pinglist ">> \o TheList \o <<" deleted.">>)
  /\ (cmd.op = "delete" /\ TheList \notin DOMAIN prevDb)
       => db = prevDb /\ out = Said(NoSuchList)
  /\ (cmd.op \in {"show", "add", "remove"} /\ TheList \in gone)
       => out = Said(NoSuchList)
  /\ (cmd.op = "doping" /\ TheList \in gone)
       => out = <<Reply(Destination, cmd.mask, NoSuchList)>>

---------------------------------------------------------------------------
(* C5 *)

\* C5: show on a list that the commands so far have built (a create with
\* nicks, then adds as unions and removes as differences, all well-formed)
\* replies with the header and exactly those members, each once, in sorted
\* order on one line: create(x,[a]), add(x,[b]), show(x) gives 'a b'.
C5_ShowRendersBuiltSet ==
  (cmd.op = "show" /\ TheList \in DOMAIN expect)
    => out = Said(<<"Members of ">> \o TheList \o <<": ">>)
               \o SendLines(cmd.target, wrap(join(sorted(expect[TheList]))))

---------------------------------------------------------------------------
(* C6 *)

\* C6: the set of list names in the store differs from what it was before
\* the last command only if that command was create or delete; and add or
\* remove on a name not in the store replies 'No such ping list.' and
\* leaves the store as it was.
C6_OnlyCreateDeleteChangeNames ==
  /\ DOMAIN db # DOMAIN prevDb => cmd.op \in {"create", "delete"}
  /\ (cmd.op \in {"add", "remove"} /\ TheList \notin DOMAIN prevDb)
       => db = prevDb /\ out = Said(NoSuchList)

\* An add with nicks on a legal name that is not in the store has run.
C6_AddOnAbsentList ==
  /\ cmd.op = "add"
  /\ _validate_listname(TheList)
  /\ TheList \notin DOMAIN prevDb
  /\ Given # {}
  /\ DOMAIN prevDb # {}
  /\ out = Said(NoSuchList)

---------------------------------------------------------------------------
(* C7 *)

\* C7: add or remove on a list in the store, given nicks of which at least
\* one is not a legal nick, replies 'Invalid nick: <nick>' for such a nick
\* and leaves the store as it was.
C7_InvalidNickRejected ==
  (cmd.op \in {"add", "remove"} /\ TheList \in DOMAIN prevDb
     /\ \E h \in Given : ~isNick(h))
    => /\ \E h \in Given : ~isNick(h) /\ out = Said(<<"Invalid nick: ">> \o h)
       /\ db = prevDb

---------------------------------------------------------------------------
(* C8 *)

\* C8: add (remove) on a list in the store with no nick given adds exactly
\* the caller's nick to (removes it from) that list, changes nothing else,
\* and sends the success reply.
C8_DefaultsToCaller ==
  /\ (cmd.op = "add" /\ TheList \in DOMAIN prevDb /\ cmd.args["<nick>"] = <<>>)
       => /\ db = WithList(TheList, prevDb[TheList] \cup {cmd.mask})
          /\ out = Said(<<"Nick(s) successfully added.">>)
  /\ (cmd.op = "remove" /\ TheList \in DOMAIN prevDb /\ cmd.args["<nick>"] = <<>>)
       => /\ db = WithList(TheList, prevDb[TheList] \ {cmd.mask})
          /\ out = Said(<<"Nick(s) successfully removed.">>)

---------------------------------------------------------------------------
(* C9 *)

\* C9: doping on a non-empty stored list S with users P at the destination
\* sends S together with every p in P that matches some s in S, each once,
\* in sorted order: stored nicks that are not present included, present
\* nicks that match no stored nick left out.
C9_DopingEmitsResolvedSet ==
  (cmd.op = "doping" /\ TheList \in DOMAIN prevDb /\ prevDb[TheList] # {})
    => LET S == prevDb[TheList]
           P == cmd.channels[Destination]
           resolved == S \cup {p \in P : \E s \in S : _nick_match(s, p)}
       IN  out = SendLines(Destination, wrap(join(sorted(resolved))))

---------------------------------------------------------------------------
(* C10 *)

---------------------------------------------------------------------------
(* C11 *)

\* C11: doping on a list that is in the store with no members sends the one
\* reply 'Ping list is empty.' and no line of nicks; doping on a name that
\* is not in the store sends the one reply 'No such ping list.' and no line
\* of nicks.
C11_DopingEmptyOrAbsent ==
  /\ (cmd.op = "doping" /\ TheList \in DOMAIN prevDb /\ prevDb[TheList] = {})
       => out = <<Reply(Destination, cmd.mask, <<"Ping list is empty.">>)>>
  /\ (cmd.op = "doping" /\ TheList \notin DOMAIN prevDb)
       => out = <<Reply(Destination, cmd.mask, NoSuchList)>>

---------------------------------------------------------------------------
(* C12 *)

\* The last command was one the plugin is to refuse: a create with an
\* illegal name, an illegal nick or a name already in the store; an add or
\* remove with an illegal nick; or any command on a name not in the store.
Refused ==
  \/ /\ cmd.op = "create"
     /\ \/ ~_validate_listname(TheList)
        \/ TheList \in DOMAIN prevDb
        \/ \E h \in Given : ~isNick(h)
  \/ /\ cmd.op \in {"add", "remove"}
     /\ \/ TheList \notin DOMAIN prevDb
        \/ \E h \in Given : ~isNick(h)
  \/ /\ cmd.op \in {"delete", "show", "doping"}
     /\ TheList \notin DOMAIN prevDb

\* C12: no command ends in an exception, every command sends a reply, and
\* a refused command sends exactly one line, which starts with the nick of
\* the caller.
C12_EveryCommandReplies ==
  cmd.op # "none"
    => /\ raised = NoError
       /\ Len(out) >= 1
       /\ Refused => /\ Len(out) = 1
                     /\ SubSeq(out[1].text, 1, Len(cmd.mask)) = cmd.mask

---------------------------------------------------------------------------
(* C13 *)

InvalidName == <<"List names can only contain alphanumeric characters.">>

\* C13: _validate_listname accepts a name exactly when it is not empty and
\* holds only letters, digits and underscores: ' ', 'a b', '' and 'a!' are
\* rejected and 'a_1' is accepted; a create with a rejected name sends the
\* invalid-name reply and leaves the store as it was, and a create with an
\* accepted name does not send that reply.
C13_NameIsWordCharacters ==
  (probe.fn = "_validate_listname" /\ probe.done)
    => LET name == probe.arg1
       IN  /\ probe.result
                <=> /\ name # <<>>
                    /\ \A i \in 1..Len(name) : name[i] \in {"a", "b", "1", "_"}
           /\ name \in {<<" ">>, <<"a", " ", "b">>, <<>>, <<"a", "!">>} => ~probe.result
           /\ name = <<"a", "_", "1">> => probe.result
           /\ ~probe.result => out = Said(InvalidName) /\ db = prevDb
           /\ probe.result => out # Said(InvalidName)

\* A create with the name 'a!' was refused over a store that holds lists.
C13_BadNameRefused ==
  /\ probe.fn = "_validate_listname" /\ probe.done
  /\ probe.arg1 = <<"a", "!">>
  /\ ~probe.result
  /\ DOMAIN db # {}
  /\ out = Said(InvalidName)

---------------------------------------------------------------------------
(* C14 *)

\* The handler of a call, run in one piece on store.
Whole(store, t) ==
  IF t.op = "add" THEN add(store, t.mask, "#chan", t.args)
  ELSE remove(store, t.mask, "#chan", t.args)

---------------------------------------------------------------------------
(* C15 *)

\* The text of a privmsg call holds msg as a run of consecutive pieces.
Carries(text, msg) ==
  \E k \in 0..(Len(text) - Len(msg)) : SubSeq(text, k + 1, k + Len(msg)) = msg

\* C15: a doping of a list that has members sends something, sends every
\* line to the channel argument when one is given and to the channel of the
\* command otherwise, names the decorated variations present on that same
\* destination, and one of the lines carries the message of the command.
C15_DopingDeliversToDestination ==
  (cmd.op = "doping" /\ TheList \in DOMAIN prevDb /\ prevDb[TheList] # {})
    => /\ out # <<>>
       /\ \A i \in DOMAIN out : out[i].to = Destination
       /\ \A p \in cmd.channels[Destination] :
             (\E s \in prevDb[TheList] : s # p /\ _nick_match(s, p))
               => \E i \in DOMAIN out : Carries(out[i].text, p)
       /\ \E i \in DOMAIN out : Carries(out[i].text, cmd.args["<message>"])

---------------------------------------------------------------------------
(* C16 *)

\* The nicks a command acts on: those given, the caller when none is given.
Effective == IF cmd.args["<nick>"] = <<>> THEN {cmd.mask} ELSE Given

\* The command just run, run once more on the store it left.
Again ==
  IF cmd.op = "add" THEN add(db, cmd.mask, cmd.target, cmd.args)
  ELSE remove(db, cmd.mask, cmd.target, cmd.args)

---------------------------------------------------------------------------
(* C17 *)

RECURSIVE Words(_)
\* The words of the lines sent, in the order sent.
Words(sent) ==
  IF sent = <<>> THEN <<>>
  ELSE split(Head(sent).text, <<>>) \o Words(Tail(sent))

\* C17: pinglists sends the header line and then the names in the store,
\* each once and in ascending order; a deleted name that was not added back
\* is not among them, and with an empty store the header is all it sends.
C17_PinglistsSortedNames ==
  cmd.op = "pinglists"
    => /\ out # <<>>
       /\ Head(out) = Reply(cmd.target, cmd.mask, <<"Current ping lists: ">>)
       /\ \A i \in DOMAIN out : out[i].to = cmd.target
       /\ LET names == Words(Tail(out))
          IN  /\ {names[i] : i \in DOMAIN names} = DOMAIN prevDb
              /\ \A i, j \in DOMAIN names : i < j => StrLess(names[i], names[j])
              /\ \A i \in DOMAIN names : names[i] \notin gone
       /\ prevDb = EmptyStore => Len(out) = 1

\* pinglists has run on a store that holds the lists x and y.
C17_TwoNamesListed ==
  /\ cmd.op = "pinglists"
  /\ DOMAIN prevDb = {<<"x">>, <<"y">>}
  /\ Len(out) = 2
  /\ out[2].text = <<"x", " ", "y">>

---------------------------------------------------------------------------
(* C18 *)

\* C18: show, pinglists and doping leave the store as it was, absent names
\* included; so a show of any list sends after the command what it would
\* have sent before it, whatever users the doping met on the channel.
C18_ReadOnlyCommands ==
  cmd.op \in {"show", "pinglists", "doping"}
    => /\ db = prevDb
       /\ \A n \in ListNames :
             show(db, cmd.mask, cmd.target, ListArgs(n)).out
               = show(prevDb, cmd.mask, cmd.target, ListArgs(n)).out

\* A doping has run on a list that holds a while a_ was on the channel.
C18_DopingMetVariation ==
  /\ cmd.op = "doping"
  /\ TheList \in DOMAIN prevDb
  /\ alice \in prevDb[TheList]
  /\ alice_ \in cmd.channels[Destination]
  /\ alice_ \notin db[TheList]

---------------------------------------------------------------------------
(* C19 *)

\* C19: a create on a name that is in the store, whatever nicks it is given,
\* leaves that list in the store with the members it had, and leaves every
\* other list alone.
C19_CreateKeepsExistingList ==
  (cmd.op = "create" /\ TheList \in DOMAIN prevDb)
    => /\ TheList \in DOMAIN db
       /\ db[TheList] = prevDb[TheList]
       /\ \A n \in DOMAIN prevDb \ {TheList} : n \in DOMAIN db /\ db[n] = prevDb[n]

\* A create naming alice has run on a stored list that holds alice and bob.
C19_CreateOnStoredList ==
  /\ cmd.op = "create"
  /\ TheList \in DOMAIN prevDb
  /\ prevDb[TheList] = {alice, bob}
  /\ Given = {alice}

---------------------------------------------------------------------------
(* C20 *)

\* Nick h of list n is new in the store with this step.
Joined(n, h) == h \in db'[n] /\ ~(n \in DOMAIN db /\ h \in db[n])

\* The step is a create or add on list n that reports success and names h.
Supplied(n, h) ==
  /\ cmd'.op \in {"create", "add"}
  /\ cmd'.args["<listname>"] = n
  /\ h \in Named(cmd')
  /\ raised' = NoError
  /\ out' \in {<<Reply(cmd'.target, cmd'.mask, <<"Pinglist ">> \o n \o <<" added.">>)>>,
               <<Reply(cmd'.target, cmd'.mask, <<"Nick(s) successfully added.">>)>>}

===========================================================================
